---- MODULE Spec2Model ----
(***************************************************************************)
(* A model of lo/operators.py: the factories that wrap n-dimensional       *)
(* array functions into flat-vector linear operators.                      *)
(*                                                                         *)
(* Arrays are kept as (shape, data) with data in C order, the order        *)
(* reshape() preserves.  A Python exception is a value [tag |-> "err"].    *)
(* An array value carries the buffer it lives in ("x": the caller's input  *)
(* buffer, "new": storage allocated by the call), so that a returned       *)
(* object that is its argument, or a view of it, can be told from a copy.  *)
(***************************************************************************)
EXTENDS Integers, Sequences, FiniteSets, TLC

\* ------------------------------------------------------------ bounds
MaxSize == 4        \* arrays hold at most MaxSize elements
MaxFactor == 3      \* binning factors 1..MaxFactor
MaxMutSize == 2     \* the caller writes into arrays of at most this size

Val == {-1, 2}      \* the values array elements are drawn from
ExampleX == <<1, 2, 3, 4, 5, 6, 7, 8>>
ExampleY == <<3, 7, 11, 15>>

\* ------------------------------------------------------------ values
Ok(v) == [tag |-> "ok", val |-> v]
Raise(e) == [tag |-> "err", exc |-> e]
IsOk(r) == r.tag = "ok"
IsErr(r) == r.tag = "err"

\* An ndarray: the buffer it lives in, its shape, its elements in C order.
Arr(b, s, d) == [buf |-> b, shape |-> s, data |-> d]

Min(a, b) == IF a < b THEN a ELSE b

RECURSIVE ProdFrom(_, _)
ProdFrom(s, i) == IF i > Len(s) THEN 1 ELSE s[i] * ProdFrom(s, i + 1)

\* np.prod(shape)
Prod(s) == ProdFrom(s, 1)

RECURSIVE SumTo(_, _)
SumTo(f, n) == IF n = 0 THEN 0 ELSE f[n] + SumTo(f, n - 1)

\* np.dot(a, b) of two flat vectors of one length
Dot(a, b) == SumTo([i \in 1..Len(a) |-> a[i] * b[i]], Len(a))

\* C-order stride of axis d (1-based) in shape s
Stride(s, d) == ProdFrom(s, d + 1)

\* the multi-index (0-based entries) of flat offset j (0-based) in shape s
Unravel(j, s) == [d \in 1..Len(s) |-> (j \div Stride(s, d)) % s[d]]

\* the flat offset (0-based) of multi-index idx in shape s
Ravel(idx, s) == SumTo([d \in 1..Len(s) |-> idx[d] * Stride(s, d)], Len(s))

\* the element of data (shape s) at multi-index idx
At(data, s, idx) == data[Ravel(idx, s) + 1]

\* Python's axis argument (negative counts from the end) as a 1-based axis
NormAxis(axis, ndim) == IF axis < 0 THEN axis + ndim + 1 ELSE axis + 1

\* ------------------------------------------------------------ inputs
ShapesOfDim(n) == {s \in [1..n -> 1..MaxSize] : Prod(s) <= MaxSize}
Ranks == {1, 2}     \* shapes have one or two axes
Shapes == UNION {ShapesOfDim(n) : n \in Ranks}
Vecs(n) == [1..n -> Val]
Axes(s) == (0 - Len(s))..(Len(s) - 1)

\* ------------------------------------------------------------ numpy
\* the product of the entries of shape other than those equal to -1
RECURSIVE ProdKnown(_, _)
ProdKnown(s, i) ==
    IF i > Len(s) THEN 1
    ELSE (IF s[i] = -1 THEN 1 ELSE s[i]) * ProdKnown(s, i + 1)

\* a.reshape(shape): a view on the same buffer.  One entry may be -1 and is
\* then inferred; the call fails when the sizes do not agree.
Reshape(a, shape) ==
    LET unknown == {i \in 1..Len(shape) : shape[i] = -1}
        known == ProdKnown(shape, 1)
        size == Len(a.data)
    IN IF \E i \in 1..Len(shape) : shape[i] < -1 THEN Raise("ValueError")
       ELSE IF unknown = {}
       THEN (IF size = known THEN Ok(Arr(a.buf, shape, a.data))
             ELSE Raise("ValueError"))
       ELSE IF Cardinality(unknown) > 1 \/ known = 0 THEN Raise("ValueError")
       ELSE IF size % known # 0 THEN Raise("ValueError")
       ELSE Ok(Arr(a.buf,
                   [i \in 1..Len(shape) |->
                       IF shape[i] = -1 THEN size \div known ELSE shape[i]],
                   a.data))

\* copy(a): the same elements in storage of its own
Copy(a) == Arr("new", a.shape, a.data)

\* np.zeros(shape)
Zeros(shape) == Arr("new", shape, [j \in 1..Prod(shape) |-> 0])

\* np.diff(a, axis=axis): a[.., i+1, ..] - a[.., i, ..] along the axis
NpDiff(a, axis) ==
    LET ax == NormAxis(axis, Len(a.shape))
        so == [a.shape EXCEPT ![ax] = IF @ > 0 THEN @ - 1 ELSE 0]
    IN Arr("new", so,
           [j \in 1..Prod(so) |->
               LET idx == Unravel(j - 1, so)
               IN At(a.data, a.shape, [idx EXCEPT ![ax] = @ + 1])
                  - At(a.data, a.shape, idx)])

\* np.concatenate((border, a, border), axis=axis), border one slice of zeros
PadZeros(a, axis) ==
    LET ax == NormAxis(axis, Len(a.shape))
        n == a.shape[ax]
        so == [a.shape EXCEPT ![ax] = @ + 2]
    IN Arr("new", so,
           [j \in 1..Prod(so) |->
               LET idx == Unravel(j - 1, so)
               IN IF idx[ax] = 0 \/ idx[ax] = n + 1 THEN 0
                  ELSE At(a.data, a.shape, [idx EXCEPT ![ax] = @ - 1])])

\* - a
Neg(a) == Arr("new", a.shape, [j \in 1..Len(a.data) |-> 0 - a.data[j]])

\* num * a, num a scalar
Scale(num, a) == Arr("new", a.shape, [j \in 1..Len(a.data) |-> num * a.data[j]])

\* d * x for flat vectors, with numpy's broadcasting of a length-1 operand
Times(d, x) ==
    IF Len(d) = Len(x.data)
    THEN Ok(Arr("new", x.shape, [j \in 1..Len(d) |-> d[j] * x.data[j]]))
    ELSE IF Len(d) = 1
    THEN Ok(Arr("new", x.shape, [j \in 1..Len(x.data) |-> d[1] * x.data[j]]))
    ELSE IF Len(x.data) = 1
    THEN Ok(Arr("new", <<Len(d)>>, [j \in 1..Len(d) |-> d[j] * x.data[1]]))
    ELSE Raise("ValueError")

\* the offsets (1-based, ascending) where the flat boolean mask m equals b
RECURSIVE Where(_, _, _)
Where(m, b, i) ==
    IF i > Len(m) THEN <<>>
    ELSE IF m[i] = b THEN <<i>> \o Where(m, b, i + 1)
    ELSE Where(m, b, i + 1)

\* np.sum(mask == b)
CountOf(m, b) == Len(Where(m, b, 1))

\* a[mask == b]: boolean indexing copies the selected elements, in C order
Select(a, m, b) ==
    IF Len(m) # Len(a.data) THEN Raise("IndexError")
    ELSE LET w == Where(m, b, 1)
         IN Ok(Arr("new", <<Len(w)>>, [j \in 1..Len(w) |-> a.data[w[j]]]))

\* a[mask == b] = v in place, v a scalar ("scalar") or a flat array
AssignWhere(a, m, b, v) ==
    LET w == Where(m, b, 1)
    IN IF Len(m) # Len(a.data) THEN Raise("IndexError")
       ELSE IF v.kind = "scalar"
       THEN Ok([a EXCEPT !.data = [j \in 1..Len(a.data) |->
                                      IF m[j] = b THEN v.val ELSE a.data[j]]])
       ELSE IF Len(v.val) # Len(w) /\ Len(v.val) # 1 THEN Raise("ValueError")
       ELSE Ok([a EXCEPT !.data = [j \in 1..Len(a.data) |->
                  IF m[j] = b
                  THEN (IF Len(v.val) = 1 THEN v.val[1]
                        ELSE v.val[CHOOSE k \in 1..Len(w) : w[k] = j])
                  ELSE a.data[j]]])

\* ------------------------------------------------------------ bin, replicate
\* one pass of bin()'s loop: outarr[.., i / factor, ..] += arr[.., i, ..]
BinStep(arr, outarr, factor, ax, i) ==
    LET t == i \div factor
    IN IF t >= outarr.shape[ax] THEN Raise("IndexError")
       ELSE Ok([outarr EXCEPT !.data =
                  [j \in 1..Len(outarr.data) |->
                      LET idx == Unravel(j - 1, outarr.shape)
                      IN IF idx[ax] = t
                         THEN outarr.data[j]
                              + At(arr.data, arr.shape, [idx EXCEPT ![ax] = i])
                         ELSE outarr.data[j]]])

RECURSIVE BinLoop(_, _, _, _, _)
BinLoop(arr, outarr, factor, ax, i) ==
    IF i >= arr.shape[ax] THEN Ok(outarr)
    ELSE LET r == BinStep(arr, outarr, factor, ax, i)
         IN IF IsErr(r) THEN r ELSE BinLoop(arr, r.val, factor, ax, i + 1)

\* bin(arr, factor, axis)
Bin(arr, factor, axis) ==
    LET ax == NormAxis(axis, Len(arr.shape))
        shapeout == [arr.shape EXCEPT ![ax] = @ \div factor]
    IN BinLoop(arr, Zeros(shapeout), factor, ax, 0)

\* a slip: the array is tiled factor times instead of each value repeated
ReplicateTiled(arr, factor, axis) ==
    LET ax == NormAxis(axis, Len(arr.shape))
        shapeout == [arr.shape EXCEPT ![ax] = @ * factor]
    IN Ok(Arr("new", shapeout,
              [j \in 1..Prod(shapeout) |->
                  LET idx == Unravel(j - 1, shapeout)
                  IN At(arr.data, arr.shape,
                        [idx EXCEPT ![ax] = @ % arr.shape[ax]])]))

\* replicate(arr, factor, axis): outarr[.., i, ..] = arr[.., i / factor, ..]
Replicate(arr, factor, axis) ==
    LET ax == NormAxis(axis, Len(arr.shape))
        shapeout == [arr.shape EXCEPT ![ax] = @ * factor]
    IN Ok(Arr("new", shapeout,
              [j \in 1..Prod(shapeout) |->
                  LET idx == Unravel(j - 1, shapeout)
                  IN At(arr.data, arr.shape,
                        [idx EXCEPT ![ax] = @ \div factor])]))

\* ------------------------------------------------------------ scipy.signal
\* the full N-d convolution of a with k, element at multi-index idx
ConvAt(a, k, idx) ==
    SumTo([i \in 1..Len(a.data) |->
              LET ai == Unravel(i - 1, a.shape)
                  b == [d \in 1..Len(a.shape) |-> idx[d] - ai[d]]
              IN IF \A d \in 1..Len(a.shape) : b[d] >= 0 /\ b[d] < k.shape[d]
                 THEN a.data[i] * At(k.data, k.shape, b)
                 ELSE 0],
          Len(a.data))

\* the part of the full convolution that starts at multi-index start
ConvPart(a, k, start, shape) ==
    Arr("new", shape,
        [j \in 1..Prod(shape) |->
            LET idx == Unravel(j - 1, shape)
            IN ConvAt(a, k, [d \in 1..Len(shape) |-> idx[d] + start[d]])])

\* scipy.signal.convolve(a, k, mode): the sizes are s + ks - 1 (full),
\* s - ks + 1 (valid, a at least as large as k) and s (same, centred)
SciConvolve(a, k, mode) ==
    LET n == Len(a.shape)
    IN IF Len(k.shape) # n THEN Raise("ValueError")
       ELSE IF Len(a.data) = 0 \/ Len(k.data) = 0
       THEN Ok(Arr("new", <<0>>, <<>>))
       ELSE IF mode = "full"
       THEN Ok(ConvPart(a, k, [d \in 1..n |-> 0],
                        [d \in 1..n |-> a.shape[d] + k.shape[d] - 1]))
       ELSE IF mode = "same"
       THEN Ok(ConvPart(a, k, [d \in 1..n |-> (k.shape[d] - 1) \div 2], a.shape))
       ELSE IF mode = "valid"
       THEN (IF \E d \in 1..n : a.shape[d] < k.shape[d] THEN Raise("ValueError")
             ELSE Ok(ConvPart(a, k, [d \in 1..n |-> k.shape[d] - 1],
                              [d \in 1..n |-> a.shape[d] - k.shape[d] + 1])))
       ELSE Raise("ValueError")

\* ------------------------------------------------------------ operators
\* A captured object: held by value (immutable, or private to the operator)
\* or by reference to the caller's object.
ByVal(v) == [ref |-> FALSE, val |-> v]
ByRef == [ref |-> TRUE, val |-> <<>>]
Deref(r, obj) == IF r.ref THEN obj ELSE r.val

\* the caller's objects a factory call is given
NoArgs ==
    [d |-> <<>>,
     mask |-> [shape |-> <<0>>, data |-> <<>>],
     shapein |-> [kind |-> "tuple", val |-> <<>>],
     dict |-> [unit |-> 0]]

NoKernel == [buf |-> "new", shape |-> <<>>, data |-> <<>>]

\* what a factory call gives back: a LinearOperator with its shape and the
\* configuration its wrapped functions close over, or an exception
NoOp ==
    [tag |-> "none", exc |-> "", kind |-> "", shape |-> <<0, 0>>,
     shapein |-> ByVal(<<>>), shapeout |-> ByVal(<<>>),
     axis |-> 0, factor |-> 1, num |-> 0, mode |-> "", kernel |-> NoKernel,
     fwd |-> "", adj |-> ""]

Failed(kind, e) == [NoOp EXCEPT !.tag = "err", !.exc = e, !.kind = kind]

LinearOperator(kind, shape) == [NoOp EXCEPT !.tag = "ok", !.kind = kind, !.shape = shape]

Built(o, a) == [op |-> o, args |-> a]

ShapeIn(op, args) == Deref(op.shapein, args.shapein.val)
ShapeOut(op, args) == Deref(op.shapeout, args.shapein.val)

\* ndoperator(shapein, shapeout, matvec, rmatvec): shape = (sizeout, sizein)
NdOperator(kind, shapein, shapeout, args) ==
    [LinearOperator(kind, <<Prod(Deref(shapeout, args.shapein.val)),
                           Prod(Deref(shapein, args.shapein.val))>>)
        EXCEPT !.shapein = shapein, !.shapeout = shapeout]

\* how a factory holds the shapein it was given: a tuple cannot change, an
\* array is the caller's object
Held(shapein) == IF shapein.kind = "array" THEN ByRef ELSE ByVal(shapein.val)

\* a slip: the shape is not checked
DiagUnchecked(d, shape) ==
    Built(LinearOperator("diag", IF shape = <<>> THEN <<Len(d), Len(d)>> ELSE shape),
          [NoArgs EXCEPT !.d = d])

\* diag(d, shape): shape is None (<<>>) or a pair
Diag(d, shape) ==
    LET args == [NoArgs EXCEPT !.d = d]
        sh == IF shape = <<>> THEN <<Len(d), Len(d)>> ELSE shape
    IN IF sh[1] # sh[2] THEN Built(Failed("diag", "ValueError"), args)
       ELSE Built(LinearOperator("diag", sh), args)

\* identity(shape)
Identity(shape) ==
    IF shape[1] # shape[2] THEN Built(Failed("identity", "ValueError"), NoArgs)
    ELSE Built(LinearOperator("identity", shape), NoArgs)

\* eye(shape)
Eye(shape) ==
    IF shape[1] = shape[2] THEN Identity(shape)
    ELSE Built(LinearOperator("eye", shape), NoArgs)

\* fft2(shapein): s is None, so shapeout = shapein
Fft2(shapein) ==
    LET args == [NoArgs EXCEPT !.shapein = shapein]
    IN IF Len(shapein.val) # 2 THEN Built(Failed("fft2", "ValueError"), args)
       ELSE Built(NdOperator("fft2", Held(shapein), Held(shapein), args), args)

\* convolve(shapein, kernel, mode)
ConvShapeOut(s, ks, mode) ==
    IF mode = "full"
    THEN [d \in 1..Min(Len(s), Len(ks)) |-> s[d] + ks[d] - 1]
    ELSE IF mode = "valid"
    THEN [d \in 1..Min(Len(s), Len(ks)) |-> s[d] - ks[d] - 1]
    ELSE s

Convolve(shapein, kernel, mode) ==
    LET args == [NoArgs EXCEPT !.shapein = shapein]
    IN IF mode \notin {"full", "valid", "same"}
       THEN Built(Failed("convolve", "UnboundLocalError"), args)
       ELSE Built([NdOperator("convolve", Held(shapein),
                              IF mode = "same" THEN Held(shapein)
                              ELSE ByVal(ConvShapeOut(shapein.val, kernel.shape, mode)),
                              args)
                      EXCEPT !.mode = mode, !.kernel = kernel],
                  args)

\* mask(mask)
Mask(mask) ==
    LET args == [NoArgs EXCEPT !.mask = mask]
    IN Built(NdOperator("mask", ByVal(mask.shape), ByVal(mask.shape), args), args)

\* decimate(mask)
Decimate(mask) ==
    LET args == [NoArgs EXCEPT !.mask = mask]
    IN Built(NdOperator("decimate", ByVal(mask.shape),
                        ByVal(<<CountOf(mask.data, FALSE)>>), args),
             args)

\* diff(shapein, axis): np.asarray(shapein) is shapein itself when shapein is
\* an array, and shapeout[axis] -= 1 then writes into the caller's object
Diff(shapein, axis) ==
    LET ax == NormAxis(axis, Len(shapein.val))
        less == [shapein.val EXCEPT ![ax] = @ - 1]
        args == [NoArgs EXCEPT !.shapein =
                    IF shapein.kind = "array" THEN [shapein EXCEPT !.val = less]
                    ELSE shapein]
    IN Built([NdOperator("diff", Held(shapein),
                         IF shapein.kind = "array" THEN ByRef ELSE ByVal(less),
                         args)
                 EXCEPT !.axis = axis],
             args)

\* binning(shapein, factor, axis): shapeout is a copy of shapein
Binning(shapein, factor, axis) ==
    LET ax == NormAxis(axis, Len(shapein.val))
        args == [NoArgs EXCEPT !.shapein = shapein]
    IN Built([NdOperator("binning", Held(shapein),
                         ByVal([shapein.val EXCEPT ![ax] = @ \div factor]), args)
                 EXCEPT !.axis = axis, !.factor = factor],
             args)

\* mul(shapein, num): num is a scalar or not
Mul(shapein, num) ==
    LET args == [NoArgs EXCEPT !.shapein = shapein]
    IN IF num.kind # "scalar" THEN Built(Failed("mul", "ValueError"), args)
       ELSE Built([NdOperator("mul", Held(shapein), Held(shapein), args)
                      EXCEPT !.num = num.val],
                  args)

\* masubclass / ndsubclass(xin=.., xout=.., matvec=.., rmatvec=..): the
\* template xin is None ("none": shapein, classin and dictin are given
\* instead), a plain ndarray (which has no __dict__) or an instance of a
\* subclass; dictin is the caller's dictionary itself
SubClass(kind, xin, shapein, dict, matvec, rmatvec) ==
    LET args == [NoArgs EXCEPT !.dict = dict]
    IN IF xin = "ndarray" THEN Built(Failed(kind, "AttributeError"), args)
       ELSE IF matvec = "None" THEN Built(Failed(kind, "ValueError"), args)
       ELSE Built([NdOperator(kind, ByVal(shapein), ByVal(shapein), args)
                      EXCEPT !.fwd = matvec, !.adj = rmatvec],
                  args)

Masubclass(xin, shapein, dict, matvec, rmatvec) ==
    SubClass("masubclass", xin, shapein, dict, matvec, rmatvec)

Ndsubclass(xin, shapein, dict, matvec, rmatvec) ==
    SubClass("ndsubclass", xin, shapein, dict, matvec, rmatvec)

\* ------------------------------------------------------------ wrapped functions
\* what a call gives back and leaves behind: the returned value (or the
\* exception) and the caller's objects after the call
Out(r, a) == [res |-> r, args |-> a]

\* the forward / adjoint functions a caller hands to masubclass and
\* ndsubclass; xi is the reconstructed instance, whose __dict__ is dict
UserFn(f, xi, dict) ==
    IF f = "scale" THEN [res |-> Ok(Scale(dict.unit, xi)), dict |-> dict]
    ELSE IF f = "scale_mark"
    THEN [res |-> Ok(Scale(dict.unit, xi)), dict |-> [dict EXCEPT !.unit = 0 - @]]
    ELSE [res |-> Ok(xi), dict |-> dict]

\* a slip: the input is zeroed in place, without the copy
MaskMatvecInPlace(args, a) ==
    AssignWhere(a, args.mask.data, TRUE, [kind |-> "scalar", val |-> 0])

\* mask's matvec (also its rmatvec): y = copy(x); y[mask==True] = 0
MaskMatvec(args, a) ==
    AssignWhere(Copy(a), args.mask.data, TRUE, [kind |-> "scalar", val |-> 0])

\* decimate's matvec: x[mask==False]
DecimateMatvec(args, a) == Select(a, args.mask.data, FALSE)

\* a slip: the values are put at the true positions
DecimateRmatvecAtTrue(op, args, a) ==
    AssignWhere(Zeros(ShapeIn(op, args)), args.mask.data, TRUE,
                [kind |-> "array", val |-> a.data])

\* decimate's rmatvec: y = np.zeros(shapein); y[mask==False] = x
DecimateRmatvec(op, args, a) ==
    AssignWhere(Zeros(ShapeIn(op, args)), args.mask.data, FALSE,
                [kind |-> "array", val |-> a.data])

\* diff's matvec: np.diff(x, axis=axis)
DiffMatvec(op, a) == Ok(NpDiff(a, op.axis))

\* a slip: the sign is lost
DiffRmatvecUnsigned(op, a) == Ok(NpDiff(PadZeros(a, op.axis), op.axis))

\* diff's rmatvec: - np.diff(np.concatenate((border, x, border), axis), axis)
DiffRmatvec(op, a) == Ok(Neg(NpDiff(PadZeros(a, op.axis), op.axis)))

\* mul's matvec (also its rmatvec): num * x
MulMatvec(op, a) == Ok(Scale(op.num, a))

\* convolve's rmatvec picks the mode of the adjoint
RMode(mode) == IF mode = "full" THEN "valid" ELSE IF mode = "valid" THEN "full" ELSE "same"

\* the matvec closures of the ndoperator-based factories, on an array of
\* shape shapein
Matvec(op, args, a) ==
    IF op.kind = "mask" THEN MaskMatvec(args, a)
    ELSE IF op.kind = "decimate" THEN DecimateMatvec(args, a)
    ELSE IF op.kind = "diff" THEN DiffMatvec(op, a)
    ELSE IF op.kind = "binning" THEN Bin(a, op.factor, op.axis)
    ELSE IF op.kind = "mul" THEN MulMatvec(op, a)
    ELSE SciConvolve(a, op.kernel, op.mode)

\* the rmatvec closures, on an array of shape shapeout
Rmatvec(op, args, a) ==
    IF op.kind = "mask" THEN MaskMatvec(args, a)
    ELSE IF op.kind = "decimate" THEN DecimateRmatvec(op, args, a)
    ELSE IF op.kind = "diff" THEN DiffRmatvec(op, a)
    ELSE IF op.kind = "binning" THEN Replicate(a, op.factor, op.axis)
    ELSE IF op.kind = "mul" THEN MulMatvec(op, a)
    ELSE SciConvolve(a, op.kernel, RMode(op.mode))

\* ndoperator's ndmatvec: matvec(x.reshape(shapein)).reshape(sizeout)
NdMatvec(op, args, x) ==
    LET xi == Reshape(x, ShapeIn(op, args))
    IN IF IsErr(xi) THEN xi
       ELSE LET r == Matvec(op, args, xi.val)
            IN IF IsErr(r) THEN r ELSE Reshape(r.val, <<op.shape[1]>>)

\* ndoperator's ndrmatvec: rmatvec(x.reshape(shapeout)).reshape(sizein)
NdRmatvec(op, args, x) ==
    LET xo == Reshape(x, ShapeOut(op, args))
    IN IF IsErr(xo) THEN xo
       ELSE LET r == Rmatvec(op, args, xo.val)
            IN IF IsErr(r) THEN r ELSE Reshape(r.val, <<op.shape[2]>>)

\* the instance masubclass / ndsubclass hand to the wrapped function:
\* classin(x.reshape(shapein)) wraps the view, classin(shapein) followed by
\* xi[:] = x.reshape(shapein) holds a copy
Instance(op, a) == IF op.kind = "masubclass" THEN a ELSE Copy(a)

\* ndmatvec / ndrmatvec of masubclass and ndsubclass: xi.__dict__ = dictin
\* makes the caller's dictionary the instance's own
SubCall(op, args, x, f, size) ==
    LET xi == Reshape(x, ShapeIn(op, args))
    IN IF IsErr(xi) THEN Out(xi, args)
       ELSE LET u == UserFn(f, Instance(op, xi.val), args.dict)
            IN Out(IF IsErr(u.res) THEN u.res ELSE Reshape(u.res.val, <<size>>),
                   [args EXCEPT !.dict = u.dict])

\* eye's matvec: x[:shape[0]], a view
EyeMatvec(op, x) ==
    LET n == Min(op.shape[1], Len(x.data))
    IN Ok(Arr(x.buf, <<n>>, SubSeq(x.data, 1, n)))

\* eye's rmatvec: np.concatenate(x, np.zeros(shape[0] - shape[1])) passes
\* the zeros as the axis argument
EyeRmatvec(op, x) ==
    IF op.shape[1] - op.shape[2] < 0 THEN Raise("ValueError")
    ELSE IF op.shape[1] - op.shape[2] = 1 THEN Raise("ValueError")
    ELSE Raise("TypeError")

IsSub(op) == op.kind \in {"masubclass", "ndsubclass"}

\* apply: the operator's matvec on the flat vector x
MatvecOf(op, args, x) ==
    IF op.kind = "diag" THEN Out(Times(args.d, x), args)
    ELSE IF op.kind = "identity" THEN Out(Ok(x), args)
    ELSE IF op.kind = "eye" THEN Out(EyeMatvec(op, x), args)
    ELSE IF IsSub(op) THEN SubCall(op, args, x, op.fwd, op.shape[1])
    ELSE Out(NdMatvec(op, args, x), args)

\* apply_adjoint: the operator's rmatvec on the flat vector x
RmatvecOf(op, args, x) ==
    IF op.kind = "diag" THEN Out(Times(args.d, x), args)
    ELSE IF op.kind = "identity" THEN Out(Ok(x), args)
    ELSE IF op.kind = "eye" THEN Out(EyeRmatvec(op, x), args)
    ELSE IF IsSub(op) THEN SubCall(op, args, x, op.adj, op.shape[2])
    ELSE Out(NdRmatvec(op, args, x), args)

\* ------------------------------------------------------------ state
VARIABLES
    op,     \* what the factory call returned
    args,   \* the caller's objects that were passed to the factory, as they are now
    args0,  \* those objects as they were when the factory was called
    x,      \* the caller's input buffer of the last apply, as it is now
    x0,     \* the vector that was passed to the last apply
    res,    \* what the last apply returned
    y,      \* the caller's input buffer of the last apply_adjoint
    y0,     \* the vector that was passed to the last apply_adjoint
    ares,   \* what the last apply_adjoint returned
    wr,     \* whether the caller has written into the returned array
    mod,    \* whether the caller has changed an object the factory was given
    call    \* the factory call that was made, with its arguments

vars == <<op, args, args0, x, x0, res, y, y0, ares, wr, mod, call>>

None == [tag |-> "none"]

Init ==
    /\ op = NoOp
    /\ args = NoArgs
    /\ args0 = NoArgs
    /\ x = <<>>
    /\ x0 = <<>>
    /\ res = None
    /\ y = <<>>
    /\ y0 = <<>>
    /\ ares = None
    /\ wr = FALSE
    /\ mod = FALSE
    /\ call = [fn |-> "none"]

\* the contents of an input buffer that held v once the call has returned r:
\* an array that lives in the buffer shows what the buffer holds
After(v, r) ==
    IF IsOk(r) /\ r.val.buf # "new"
    THEN [i \in 1..Len(v) |-> IF i <= Len(r.val.data) THEN r.val.data[i] ELSE v[i]]
    ELSE v

\* the inputs of the factories
Pairs == (1..MaxSize) \X (1..MaxSize)
TupleArgs == {[kind |-> "tuple", val |-> s] : s \in Shapes}
ShapeArgs == {[kind |-> k, val |-> s] : k \in {"tuple", "array"}, s \in Shapes}
SmallShapes == {s \in Shapes : Prod(s) <= MaxMutSize}
MasksOf(s) == {[shape |-> s, data |-> m] : m \in [1..Prod(s) -> BOOLEAN]}
Masks == UNION {MasksOf(s) : s \in Shapes}
Fns == {"scale", "scale_mark", "self"}

\* the vectors of length n the caller applies an operator to
InputVecs(n) ==
    (IF n <= MaxSize THEN Vecs(n) ELSE {[i \in 1..n |-> v] : v \in Val})
    \cup {v \in {ExampleX, ExampleY} : Len(v) = n}

\* a factory call: passed are the caller's objects before the call, b is
\* what the factory built and what it left of them
Call(c, passed, b) ==
    /\ call' = c
    /\ op' = b.op
    /\ args' = b.args
    /\ args0' = passed
    /\ UNCHANGED <<x, x0, res, y, y0, ares, wr, mod>>

CallDiag ==
    /\ op.tag = "none"
    /\ \E n \in 1..MaxSize : \E d \in Vecs(n) : \E shape \in {<<>>} \cup Pairs :
        Call([fn |-> "diag", d |-> d, shape |-> shape],
             [NoArgs EXCEPT !.d = d], Diag(d, shape))

CallIdentity ==
    /\ op.tag = "none"
    /\ \E shape \in Pairs : Call([fn |-> "identity", shape |-> shape], NoArgs, Identity(shape))

CallEye ==
    /\ op.tag = "none"
    /\ \E shape \in Pairs : Call([fn |-> "eye", shape |-> shape], NoArgs, Eye(shape))

CallFft2 ==
    /\ op.tag = "none"
    /\ \E shapein \in TupleArgs :
        Call([fn |-> "fft2", shapein |-> shapein],
             [NoArgs EXCEPT !.shapein = shapein], Fft2(shapein))

\* kernels no larger than the input along any axis, of the input's rank
Kernels(s) ==
    {Arr("new", ks, [j \in 1..Prod(ks) |-> 1]) :
        ks \in {k \in ShapesOfDim(Len(s)) : \A d \in 1..Len(s) : k[d] <= s[d]}}

CallConvolve ==
    /\ op.tag = "none"
    /\ \E shapein \in TupleArgs : \E kernel \in Kernels(shapein.val) :
       \E mode \in {"full", "valid", "same", "other"} :
        Call([fn |-> "convolve", shapein |-> shapein, kernel |-> kernel, mode |-> mode],
             [NoArgs EXCEPT !.shapein = shapein], Convolve(shapein, kernel, mode))

CallMask ==
    /\ op.tag = "none"
    /\ \E mask \in Masks : 
        Call([fn |-> "mask", mask |-> mask], [NoArgs EXCEPT !.mask = mask], Mask(mask))

CallDecimate ==
    /\ op.tag = "none"
    /\ \E mask \in Masks : 
        Call([fn |-> "decimate", mask |-> mask],
             [NoArgs EXCEPT !.mask = mask], Decimate(mask))

CallDiff ==
    /\ op.tag = "none"
    /\ \E shapein \in ShapeArgs : \E axis \in Axes(shapein.val) :
        Call([fn |-> "diff", shapein |-> shapein, axis |-> axis],
             [NoArgs EXCEPT !.shapein = shapein], Diff(shapein, axis))

\* binning is also called as in the scenario: shapein (8,), factor 2
BinArgs == ShapeArgs \cup {[kind |-> "tuple", val |-> <<Len(ExampleX)>>]}

CallBinning ==
    /\ op.tag = "none"
    /\ \E shapein \in BinArgs : \E axis \in Axes(shapein.val) :
       \E factor \in 1..MaxFactor :
        Call([fn |-> "binning", shapein |-> shapein, factor |-> factor, axis |-> axis],
             [NoArgs EXCEPT !.shapein = shapein], Binning(shapein, factor, axis))

CallMul ==
    /\ op.tag = "none"
    /\ \E shapein \in TupleArgs :
       \E num \in {[kind |-> "scalar", val |-> v] : v \in Val}
                   \cup {[kind |-> "vector", val |-> 0]} :
        Call([fn |-> "mul", shapein |-> shapein, num |-> num],
             [NoArgs EXCEPT !.shapein = shapein], Mul(shapein, num))

CallMasubclass ==
    /\ op.tag = "none"
    /\ \E xin \in {"none", "ndarray", "subclass"} : \E shapein \in SmallShapes :
       \E unit \in Val : \E matvec \in Fns \cup {"None"} :
       \E rmatvec \in Fns \cup {"None"} :
        Call([fn |-> "masubclass", xin |-> xin, shapein |-> shapein,
              matvec |-> matvec, rmatvec |-> rmatvec],
             [NoArgs EXCEPT !.dict = [unit |-> unit]],
             Masubclass(xin, shapein, [unit |-> unit], matvec, rmatvec))

CallNdsubclass ==
    /\ op.tag = "none"
    /\ \E xin \in {"none", "ndarray", "subclass"} : \E shapein \in SmallShapes :
       \E unit \in Val : \E matvec \in Fns \cup {"None"} :
       \E rmatvec \in Fns \cup {"None"} :
        Call([fn |-> "ndsubclass", xin |-> xin, shapein |-> shapein,
              matvec |-> matvec, rmatvec |-> rmatvec],
             [NoArgs EXCEPT !.dict = [unit |-> unit]],
             Ndsubclass(xin, shapein, [unit |-> unit], matvec, rmatvec))

\* apply(v), v of the declared length cols.  The caller applies the operator
\* once, and again after an object the factory was given has changed.
Apply ==
    /\ op.tag = "ok"
    /\ op.kind # "fft2"
    /\ op.shape[2] >= 0
    /\ ares.tag = "none"
    /\ res.tag = "none" \/ mod \/ args # args0
    /\ \E v \in InputVecs(op.shape[2]) :
        \E out \in {MatvecOf(op, args, Arr("x", <<Len(v)>>, v))} :
           /\ x' = After(v, out.res)
           /\ x0' = v
           /\ res' = out.res
           /\ args' = out.args
    /\ wr' = FALSE
    /\ UNCHANGED <<op, args0, y, y0, ares, mod, call>>

\* apply_adjoint(v), v of the declared length rows
ApplyAdjoint ==
    /\ op.tag = "ok"
    /\ op.kind # "fft2"
    /\ IsSub(op) => op.adj # "None"
    /\ op.shape[1] >= 0
    /\ ares.tag = "none"
    /\ ~wr
    /\ \E v \in InputVecs(op.shape[1]) :
        \E out \in {RmatvecOf(op, args, Arr("y", <<Len(v)>>, v))} :
           /\ y' = After(v, out.res)
           /\ y0' = v
           /\ ares' = out.res
           /\ args' = out.args
    /\ UNCHANGED <<op, args0, x, x0, res, wr, mod, call>>

\* the caller changes, in place, an object it passed to the factory
CallerModifies ==
    /\ op.tag = "ok"
    /\ ares.tag = "none"
    /\ ~wr
    /\ \/ /\ op.kind = "diag"
          /\ Len(args.d) <= MaxMutSize
          /\ \E i \in 1..Len(args.d) : \E v \in Val \ {args.d[i]} :
                args' = [args EXCEPT !.d[i] = v]
       \/ /\ op.kind \in {"mask", "decimate"}
          /\ Len(args.mask.data) <= MaxMutSize
          /\ \E i \in 1..Len(args.mask.data) :
                args' = [args EXCEPT !.mask.data[i] = ~@]
       \/ /\ IsSub(op)
          /\ Prod(ShapeIn(op, args)) <= MaxMutSize
          /\ \E v \in Val \ {args.dict.unit} :
                args' = [args EXCEPT !.dict.unit = v]
    /\ mod' = TRUE
    /\ UNCHANGED <<op, args0, x, x0, res, y, y0, ares, wr, call>>

\* the caller writes into the array apply returned; when that array lives in
\* the input buffer the write lands there
WriteOutput ==
    /\ res.tag = "ok"
    /\ ares.tag = "none"
    /\ ~wr
    /\ Len(x0) <= MaxMutSize
    /\ \E i \in 1..Len(res.val.data) : \E v \in Val \ {res.val.data[i]} :
        /\ res' = [res EXCEPT !.val.data[i] = v]
        /\ x' = IF res.val.buf = "x" THEN [x EXCEPT ![i] = v] ELSE x
    /\ wr' = TRUE
    /\ UNCHANGED <<op, args, args0, x0, y, y0, ares, mod, call>>

Next ==
    \/ CallDiag
    \/ CallIdentity
    \/ CallEye
    \/ CallFft2
    \/ CallConvolve
    \/ CallMask
    \/ CallDecimate
    \/ CallDiff
    \/ CallBinning
    \/ CallMul
    \/ CallMasubclass
    \/ CallNdsubclass
    \/ Apply
    \/ ApplyAdjoint
    \/ CallerModifies
    \/ WriteOutput

Spec == Init /\ [][Next]_vars

\* ------------------------------------------------------------ properties
Applied == res.tag # "none"
AdjointApplied == ares.tag # "none"

\* the caller has left alone what the factory was given and what apply returned
Untouched == ~mod /\ ~wr

\* the offsets where mask m is false, and the rank of offset i among them
Falses(m) == {i \in 1..Len(m) : ~m[i]}
RankIn(S, i) == Cardinality({k \in S : k <= i})

\* C1: decimate(m) is an adjoint pair.  apply gives the entries of x at the
\* false positions of m, in order; apply_adjoint puts y at the false
\* positions of a zero array of the domain shape; and
\* dot(apply(x), y) = dot(x, apply_adjoint(y)).
C1_DecimateAdjointPair ==
    (call.fn = "decimate" /\ Untouched) =>
        LET m == call.mask.data
            F == Falses(m)
        IN /\ op.tag = "ok"
           /\ op.shape = <<Cardinality(F), Len(m)>>
           /\ Applied =>
                /\ IsOk(res)
                /\ Len(res.val.data) = Cardinality(F)
                /\ \A i \in F : res.val.data[RankIn(F, i)] = x0[i]
           /\ AdjointApplied =>
                /\ IsOk(ares)
                /\ Len(ares.val.data) = Len(m)
                /\ \A i \in 1..Len(m) :
                      ares.val.data[i] = IF m[i] THEN 0 ELSE y0[RankIn(F, i)]
           /\ (Applied /\ AdjointApplied) =>
                Dot(res.val.data, y0) = Dot(x0, ares.val.data)

\* a decimate over a 2 x 2 mask with true and false entries, applied both ways
C1_Witness ==
    /\ call.fn = "decimate"
    /\ Untouched
    /\ call.mask.shape = <<2, 2>>
    /\ call.mask.data = <<TRUE, FALSE, FALSE, TRUE>>
    /\ IsOk(res)
    /\ IsOk(ares)
    /\ x0 = <<2, -1, 2, 2>>
    /\ y0 = <<2, -1>>
    /\ res.val.data = <<-1, 2>>
    /\ ares.val.data = <<0, 2, -1, 0>>
    /\ Dot(res.val.data, y0) = -4

\* shape s with its axis ax (1-based) set to n
WithAxis(s, ax, n) == [s EXCEPT ![ax] = n]

\* C2: binning(shapein, factor, axis) with shapein[axis] divisible by
\* factor.  apply sums every factor consecutive elements along the axis
\* (output element j is the sum of input elements j*factor ..
\* j*factor+factor-1, the axis has length shapein[axis]/factor);
\* apply_adjoint repeats each value factor times (output element i is input
\* element floor(i/factor), the axis has length shapein[axis]); factor 2 on
\* [1..8] gives [3,7,11,15], whose adjoint is [3,3,7,7,11,11,15,15].
C2_BinningSumReplicate ==
    (/\ call.fn = "binning"
     /\ call.shapein.val[NormAxis(call.axis, Len(call.shapein.val))] % call.factor = 0
     /\ Untouched) =>
        LET si == call.shapein.val
            ax == NormAxis(call.axis, Len(si))
            f == call.factor
            so == WithAxis(si, ax, si[ax] \div f)
        IN /\ op.tag = "ok"
           /\ op.shape = <<Prod(so), Prod(si)>>
           /\ Applied =>
                /\ IsOk(res)
                /\ Len(res.val.data) = Prod(so)
                /\ \A j \in 1..Prod(so) :
                      LET idx == Unravel(j - 1, so)
                      IN res.val.data[j] =
                           SumTo([t \in 1..f |->
                                    At(x0, si, WithAxis(idx, ax, idx[ax] * f + t - 1))],
                                 f)
                /\ (x0 = ExampleX /\ f = 2) => res.val.data = ExampleY
           /\ AdjointApplied =>
                /\ IsOk(ares)
                /\ Len(ares.val.data) = Prod(si)
                /\ \A i \in 1..Prod(si) :
                      LET idx == Unravel(i - 1, si)
                      IN ares.val.data[i] = At(y0, so, WithAxis(idx, ax, idx[ax] \div f))
                /\ (y0 = ExampleY /\ f = 2) =>
                      ares.val.data = <<3, 3, 7, 7, 11, 11, 15, 15>>

\* the scenario: binning((8,), 2) applied to [1..8], then the adjoint
C2_Witness ==
    /\ call.fn = "binning"
    /\ call.shapein.val = <<Len(ExampleX)>>
    /\ call.factor = 2
    /\ x0 = ExampleX
    /\ IsOk(res)
    /\ res.val.data = ExampleY
    /\ y0 = ExampleY
    /\ IsOk(ares)
    /\ ares.val.data = <<3, 3, 7, 7, 11, 11, 15, 15>>

\* C3: configuration errors are raised inside the factory call and no
\* operator is returned: diag with an explicit shape whose entries differ,
\* identity with a non-square shape, fft2 with a shapein that has not 2
\* dimensions, mul with a non-scalar num, masubclass / ndsubclass without a
\* forward function, whatever the other arguments are.
C3_ConfigurationErrors ==
    (\/ call.fn = "diag" /\ call.shape # <<>> /\ call.shape[1] # call.shape[2]
     \/ call.fn = "identity" /\ call.shape[1] # call.shape[2]
     \/ call.fn = "fft2" /\ Len(call.shapein.val) # 2
     \/ call.fn = "mul" /\ call.num.kind # "scalar"
     \/ call.fn \in {"masubclass", "ndsubclass"} /\ call.matvec = "None") =>
        /\ op.tag = "err"
        /\ ~Applied
        /\ ~AdjointApplied

\* diag(d, shape=(2, 3)) has raised ValueError
C3_Witness ==
    /\ call.fn = "diag"
    /\ call.shape = <<2, 3>>
    /\ Len(call.d) = 2
    /\ op.tag = "err"
    /\ op.exc = "ValueError"

StandardConvShape(s, ks, mode) ==
    IF mode = "full" THEN [d \in 1..Len(s) |-> s[d] + ks[d] - 1]
    ELSE IF mode = "valid" THEN [d \in 1..Len(s) |-> s[d] - ks[d] + 1]
    ELSE s

\* C4: convolve(shapein, kernel, mode) declares its codomain shape by the
\* standard size arithmetic (full: s + ks - 1, valid: s - ks + 1, same: s),
\* so that rows is the length of what apply returns and cols the length of
\* what apply_adjoint returns.
C4_ConvolveDeclaredShape ==
    (call.fn = "convolve" /\ call.mode \in {"full", "valid", "same"}) =>
        /\ op.tag = "ok"
        /\ op.shape = <<Prod(StandardConvShape(call.shapein.val, call.kernel.shape,
                                               call.mode)),
                        Prod(call.shapein.val)>>
        /\ Applied => IsOk(res) /\ Len(res.val.data) = op.shape[1]
        /\ AdjointApplied => IsOk(ares) /\ Len(ares.val.data) = op.shape[2]

\* C5: eye(shape) with rows # cols is a truncate / zero-pad pair: apply
\* gives the first shape[0] entries of x, a vector of length rows;
\* apply_adjoint gives y padded with zeros to length cols; both succeed for
\* rows < cols and rows > cols.  With a square shape eye is the identity in
\* both directions.
C5_EyeTruncatePad ==
    (call.fn = "eye" /\ ~wr) =>
        /\ op.tag = "ok"
        /\ op.shape = call.shape
        /\ Applied =>
             /\ IsOk(res)
             /\ Len(res.val.data) = op.shape[1]
             /\ \A i \in 1..op.shape[1] : res.val.data[i] = x0[i]
        /\ AdjointApplied =>
             /\ IsOk(ares)
             /\ Len(ares.val.data) = op.shape[2]
             /\ \A i \in 1..op.shape[2] :
                   ares.val.data[i] = IF i <= Len(y0) THEN y0[i] ELSE 0

\* C6: failure is never deferred from construction to apply: binning with a
\* factor that does not divide shapein[axis], diag with an explicit square
\* shape whose size differs from len(d), and convolve with an unknown mode
\* fail in the factory call; and whenever a factory returns an operator,
\* apply on a vector of the declared length cols does not fail.
C6_NoDeferredFailure ==
    /\ (/\ call.fn = "binning"
        /\ call.shapein.val[NormAxis(call.axis, Len(call.shapein.val))]
              % call.factor # 0) => op.tag = "err"
    /\ (call.fn = "diag" /\ call.shape # <<>> /\ call.shape[1] # Len(call.d))
          => op.tag = "err"
    /\ (call.fn = "convolve" /\ call.mode \notin {"full", "valid", "same"})
          => op.tag = "err"
    /\ (Applied /\ ~mod) => IsOk(res)

\* C7: an operator is immutable after construction and apply is a pure
\* function of its input and of the configuration captured by the factory
\* call: whatever the caller later does to the objects it passed (d, the
\* mask, the template's attribute dictionary) and whatever the wrapped
\* function does to the instance it receives, apply(x) returns what it
\* returned right after construction and the template's attributes are
\* what they were.
C7_PureOfCapturedConfiguration ==
    (call.fn \in {"diag", "mask", "decimate", "masubclass", "ndsubclass"}
     /\ op.tag = "ok") =>
        /\ (Applied /\ ~wr) => res = MatvecOf(op, args0, Arr("x", <<Len(x0)>>, x0)).res
        /\ ~mod => args.dict = args0.dict

\* C10: diff and binning do not modify the shapein they are given, tuple
\* or array, and the operator's shape is (prod(shapeout), prod(shapein))
\* for that shapein with only the codomain axis changed (one less for diff,
\* divided by factor for binning).
C10_FactoryLeavesShapein ==
    (call.fn \in {"diff", "binning"}) =>
        LET si == call.shapein.val
            ax == NormAxis(call.axis, Len(si))
            so == WithAxis(si, ax, IF call.fn = "diff" THEN si[ax] - 1
                                   ELSE si[ax] \div call.factor)
        IN /\ op.tag = "ok"
           /\ args.shapein = call.shapein
           /\ op.shape = <<Prod(so), Prod(si)>>

\* the factories whose wrapped functions build their result
FreshKinds == {"diag", "mul", "mask", "decimate", "diff", "binning", "convolve"}

\* C8 as amended: a call only reads its input (the input buffer holds after
\* the call what it held before); for diag, mul, mask, decimate, diff,
\* binning and convolve the returned array is storage of its own, so a later
\* write to it leaves the input alone; identity (and a square eye) returns
\* the input object itself and a rectangular eye's apply returns a view of
\* the input, so a later write to that output changes the input.
C8_ReadsInputOnly ==
    /\ (Applied /\ ~wr) => x = x0
    /\ AdjointApplied => y = y0
    /\ (IsOk(res) /\ op.kind \in FreshKinds) => (res.val.buf = "new" /\ x = x0)
    /\ (IsOk(ares) /\ op.kind \in FreshKinds) => ares.val.buf = "new"
    /\ (IsOk(res) /\ op.kind = "identity") => (res.val.buf = "x" /\ res.val.data = x)
    /\ (IsOk(ares) /\ op.kind = "identity") => (ares.val.buf = "y" /\ ares.val.data = y)
    /\ (IsOk(res) /\ op.kind = "eye") =>
          /\ res.val.buf = "x"
          /\ res.val.data = SubSeq(x, 1, Len(res.val.data))

\* the caller wrote into what identity's apply returned and its input changed
C8_Witness ==
    /\ op.kind = "identity"
    /\ IsOk(res)
    /\ wr
    /\ x0 = <<2, -1>>
    /\ x = <<-1, -1>>
    /\ res.val.data = <<-1, -1>>

\* C8 as stated: for identity, eye, diag, mul, mask, decimate and the
\* ndoperator-based factories the input is unchanged after the call and the
\* returned vector is a new object that shares no storage with the input,
\* so that a later write to the output never changes the input.
C8_FreshOutput ==
    (op.kind \in FreshKinds \cup {"identity", "eye"}) =>
        /\ IsOk(res) => (res.val.buf = "new" /\ x = x0)
        /\ IsOk(ares) => (ares.val.buf = "new" /\ y = y0)

====
